---- MODULE Spec2Model ----
(***************************************************************************)
(* Model of src/main.py: a FastAPI proxy in front of the                   *)
(* FinancialModelingPrep API.  One inbound request is followed from the    *)
(* handler call to its response; the upstream calls it awaits complete in  *)
(* any order with any reply.                                               *)
(*                                                                         *)
(* A response is what the handler returns or raises: the reshaping of a    *)
(* returned value by the route's response_model is done by the framework   *)
(* and is not part of this model.                                          *)
(***************************************************************************)
EXTENDS Integers, Sequences, FiniteSets, TLC

\* ---------------------------------------------------------------- bounds
\* longest JSON array an upstream reply carries
MaxLen == 2

\* ------------------------------------------------------- parsed JSON values
\* Python None; also what a JSON null parses to
None == "null"

\* elements of an upstream array: two records
Elems == {"r1", "r2"}

\* elements of the array under the "historical" key
HistElems == {"d1"}

\* text of an upstream error response
ErrTexts == {"Limit Reach", "Invalid API KEY"}

Tickers == {"AAPL", "MSFT"}

SeqsUpTo(S, n) == UNION {[1..k -> S] : k \in 0..n}

\* a parsed JSON body: kind tells which of the other fields is meaningful
JValue(k, v, its, ks) == [kind |-> k, val |-> v, items |-> its, keys |-> ks]

JNone == JValue("null", "", <<>>, {})

Bodies ==
    {JNone}
    \cup {JValue("bool", v, <<>>, {}) : v \in {"false", "true"}}
    \cup {JValue("num", v, <<>>, {}) : v \in {"0", "7"}}
    \cup {JValue("str", v, <<>>, {}) : v \in {"", "abc", "historical"}}
    \cup {JValue("list", "", its, {}) : its \in SeqsUpTo(Elems, MaxLen)}
    \cup {JValue("obj", "", <<>>, ks) : ks \in {{}, {"Error Message"}}}
    \cup {JValue("obj", "", its, {"historical"}) : its \in SeqsUpTo(HistElems, MaxLen)}

\* Python truthiness of a parsed body
Truthy(d) ==
    CASE d.kind = "null" -> FALSE
      [] d.kind = "bool" -> d.val = "true"
      [] d.kind = "num"  -> d.val # "0"
      [] d.kind = "str"  -> d.val # ""
      [] d.kind = "list" -> Len(d.items) > 0
      [] d.kind = "obj"  -> d.keys # {}

IsList(d) == d.kind = "list"

\* ------------------------------------------------------- upstream replies
\* what client.get(url) and response.json() can produce
Reply(n, s, t, j, b) == [net |-> n, status |-> s, text |-> t, json |-> j, body |-> b]

UpstreamStatuses == {200, 404, 500, 503}

IsSuccess(s) == s \div 100 = 2

Replies ==
    {Reply("error", 0, "", "none", JNone)}
    \cup {Reply("ok", s, t, "none", JNone) :
            s \in {x \in UpstreamStatuses : ~IsSuccess(x)}, t \in ErrTexts}
    \cup {Reply("ok", s, "", "malformed", JNone) :
            s \in {x \in UpstreamStatuses : IsSuccess(x)}}
    \cup {Reply("ok", s, "", "ok", b) :
            s \in {x \in UpstreamStatuses : IsSuccess(x)}, b \in Bodies}

\* ------------------------------------------------------- outcome of a call
Return(d) == [tag |-> "return", data |-> d, status |-> 0, detail |-> ""]

HTTPException(s, d) == [tag |-> "raise", data |-> JNone, status |-> s, detail |-> d]

NoResult == [tag |-> "none", data |-> JNone, status |-> 0, detail |-> ""]

InternalDetail == "An unexpected internal error occurred."

ExternalDetail(t) == "Error from external API: " \o t

\* fetch_fmp_data with one except clause for every exception: an upstream
\* status is reported as the generic internal error
fetch_fmp_data_one_handler(r) ==
    IF r.net = "error" THEN HTTPException(500, InternalDetail)
    ELSE IF ~IsSuccess(r.status) THEN HTTPException(500, InternalDetail)
    ELSE IF r.json = "malformed" THEN HTTPException(500, InternalDetail)
    ELSE Return(IF Truthy(r.body) THEN r.body ELSE JNone)

\* fetch_fmp_data returning None where the call failed without a status
fetch_fmp_data_swallowing(r) ==
    IF r.net = "error" THEN Return(JNone)
    ELSE IF ~IsSuccess(r.status) THEN HTTPException(r.status, ExternalDetail(r.text))
    ELSE IF r.json = "malformed" THEN Return(JNone)
    ELSE Return(IF Truthy(r.body) THEN r.body ELSE JNone)

\* fetch_fmp_data with the reply r of the upstream
fetch_fmp_data(r) ==
    IF r.net = "error" THEN HTTPException(500, InternalDetail)
    ELSE IF ~IsSuccess(r.status) THEN HTTPException(r.status, ExternalDetail(r.text))
    ELSE IF r.json = "malformed" THEN HTTPException(500, InternalDetail)
    ELSE Return(IF Truthy(r.body) THEN r.body ELSE JNone)

\* ------------------------------------------------------------------ state
VARIABLES
    API_KEY,    \* os.getenv("FMP_API_KEY"): None when unset
    phase,      \* "import" while the module body runs, then "serving" or "crashed"
    pc,         \* position of the request handler: "idle", "await", "responded"
    route,      \* the route of the request being handled
    ticker,     \* its path parameter
    client,     \* the handler's httpx.AsyncClient: "none", "open", "closed"
    calls,      \* the fetch_fmp_data calls of the request, in the order they were made
    order,      \* indices of the calls in the order they completed
    outer,      \* the future asyncio.gather returned to the handler
    response    \* what the handler returned or raised

vars == <<API_KEY, phase, pc, route, ticker, client, calls, order, outer, response>>

BASE_URL == "https://financialmodelingprep.com/api/v3"

Url(endpoint, key) == BASE_URL \o endpoint \o "?apikey=" \o key

\* a call of fetch_fmp_data: pending until client.get answers
Call(e, u) == [endpoint |-> e, url |-> u, state |-> "pending",
               reply |-> Reply("none", 0, "", "none", JNone), result |-> NoResult]

\* ---------------------------------------------------------------- responses
Response(s, d, k, e, its, p, q, c) ==
    [status |-> s, detail |-> d, kind |-> k, elem |-> e, items |-> its,
     profile |-> p, quote |-> q, chart_intraday |-> c]

NoResponse == Response(0, "", "none", None, <<>>, None, None, <<>>)

\* an HTTPException (or any unhandled exception, status 500) leaving the handler
Failure(s, d) == Response(s, d, "error", None, <<>>, None, None, <<>>)

Unhandled == Failure(500, "Internal Server Error")

QuoteNotFound == "Quote data for ticker not found."

StockNotFound(t) == "Could not retrieve any data for ticker " \o t \o "."

\* get_quote without its isinstance test
get_quote_body_any_truthy(quote_data) ==
    IF Truthy(quote_data)
    THEN Response(200, "", "object",
                  IF IsList(quote_data) THEN quote_data.items[1] ELSE None,
                  <<>>, None, None, <<>>)
    ELSE Failure(404, QuoteNotFound)

\* the part of get_quote after the fetch returned quote_data
get_quote_body(quote_data) ==
    IF IsList(quote_data) /\ Truthy(quote_data)
    THEN Response(200, "", "object", quote_data.items[1], <<>>, None, None, <<>>)
    ELSE Failure(404, QuoteNotFound)

\* "historical" in historical_data: raises TypeError on a number or a boolean
HistoricalIn(d) ==
    CASE d.kind = "obj"  -> IF "historical" \in d.keys THEN "yes" ELSE "no"
      [] d.kind = "list" -> IF \E i \in 1..Len(d.items) : d.items[i] = "historical"
                            THEN "yes" ELSE "no"
      [] d.kind = "str"  -> IF d.val = "historical" THEN "yes" ELSE "no"
      [] OTHER           -> "TypeError"

\* get_historical_daily with the not-found policy of get_quote
get_historical_daily_body_not_found(historical_data) ==
    IF Truthy(historical_data) /\ historical_data.kind = "obj"
       /\ "historical" \in historical_data.keys
    THEN Response(200, "", "array", None, historical_data.items, None, None, <<>>)
    ELSE Failure(404, "Historical data for ticker not found.")

\* the part of get_historical_daily after the fetch returned historical_data
get_historical_daily_body(historical_data) ==
    IF ~Truthy(historical_data)
    THEN Response(200, "", "array", None, <<>>, None, None, <<>>)
    ELSE CASE HistoricalIn(historical_data) = "TypeError" -> Unhandled
           [] HistoricalIn(historical_data) = "no" ->
                Response(200, "", "array", None, <<>>, None, None, <<>>)
           [] OTHER ->
                \* historical_data["historical"]: only a dict can be indexed by a string
                IF historical_data.kind = "obj"
                THEN Response(200, "", "array", None, historical_data.items,
                              None, None, <<>>)
                ELSE Unhandled

\* x[0] if isinstance(x, list) and x else None
FirstOrNone(x) == IF IsList(x) /\ Truthy(x) THEN x.items[1] ELSE None

\* all(...) in the place of any(...)
AllData(profile_data, quote_data, intraday_data) ==
    Truthy(profile_data) /\ Truthy(quote_data) /\ Truthy(intraday_data)

\* any([profile_data, quote_data, intraday_data])
AnyData(profile_data, quote_data, intraday_data) ==
    Truthy(profile_data) \/ Truthy(quote_data) \/ Truthy(intraday_data)

\* x[-1] if isinstance(x, list) and x else None
LastOrNone(x) == IF IsList(x) /\ Truthy(x) THEN x.items[Len(x.items)] ELSE None

\* processed_data taking the last quote of the list
processed_data_last_quote(profile_data, quote_data, intraday_data) ==
    Response(200, "", "combined", None, <<>>,
             FirstOrNone(profile_data), LastOrNone(quote_data),
             IF IsList(intraday_data) THEN intraday_data.items ELSE <<>>)

\* processed_data of get_stock_all_data
processed_data(profile_data, quote_data, intraday_data) ==
    Response(200, "", "combined", None, <<>>,
             FirstOrNone(profile_data), FirstOrNone(quote_data),
             IF IsList(intraday_data) THEN intraday_data.items ELSE <<>>)

\* the part of get_stock_all_data after gather returned its three results
get_stock_all_data_body(t, results) ==
    IF ~AnyData(results[1], results[2], results[3])
    THEN Failure(404, StockNotFound(t))
    ELSE processed_data(results[1], results[2], results[3])

\* ------------------------------------------------------------ asyncio.gather
Pending == [state |-> "pending", from |-> 0, exc |-> NoResult]

\* the results of the children in the order the children completed
GatherResultsAsCompleted(cs, ord) == [i \in 1..Len(cs) |-> cs[ord[i]].result.data]

\* the results of the children, in the order the children were passed
GatherResults(cs, ord) == [i \in 1..Len(cs) |-> cs[i].result.data]

\* a callback that resolves the future when the first child returns
DoneCallbackFirstCompleted(out, cs, i) ==
    IF out.state # "pending" THEN out
    ELSE IF cs[i].result.tag = "raise"
         THEN [state |-> "exception", from |-> i, exc |-> cs[i].result]
    ELSE [state |-> "result", from |-> 0, exc |-> NoResult]

\* gather's callback for child i, with cs the calls after i completed
DoneCallback(out, cs, i) ==
    IF out.state # "pending" THEN out
    ELSE IF cs[i].result.tag = "raise"
         THEN [state |-> "exception", from |-> i, exc |-> cs[i].result]
    ELSE IF \A j \in 1..Len(cs) : cs[j].state = "done"
         THEN [state |-> "result", from |-> 0, exc |-> NoResult]
    ELSE out

\* ----------------------------------------------------------------- startup
EnvValues == {None, "", "k3y"}

Init ==
    /\ API_KEY \in EnvValues
    /\ phase = "import"
    /\ pc = "idle"
    /\ route = "none"
    /\ ticker = ""
    /\ client = "none"
    /\ calls = <<>>
    /\ order = <<>>
    /\ outer = Pending
    /\ response = NoResponse

\* API_KEY is None
KeyUnset(key) == key = None

\* not API_KEY
KeyMissing(key) == key = None \/ key = ""

\* the module body: lines 19-28
Startup ==
    /\ phase = "import"
    /\ phase' = IF KeyMissing(API_KEY) THEN "crashed" ELSE "serving"
    /\ UNCHANGED <<API_KEY, pc, route, ticker, client, calls, order, outer, response>>

\* ---------------------------------------------------------------- handlers
CanServe == phase = "serving" /\ pc = "idle"

read_root ==
    /\ CanServe
    /\ route' = "/"
    /\ pc' = "responded"
    /\ response' = Response(200, "", "root", "CONFIGURED", <<>>, None, None, <<>>)
    /\ UNCHANGED <<API_KEY, phase, ticker, client, calls, order, outer>>

\* the handler up to its await: the client is opened and the fetches are started
Start(r, t, endpoints) ==
    /\ CanServe
    /\ route' = r
    /\ ticker' = t
    /\ client' = "open"
    /\ calls' = [i \in 1..Len(endpoints) |-> Call(endpoints[i], Url(endpoints[i], API_KEY))]
    /\ pc' = "await"
    /\ UNCHANGED <<API_KEY, phase, order, outer, response>>

get_quote_call ==
    \E t \in Tickers : Start("/api/quote", t, <<"/quote/" \o t>>)

get_historical_daily_call ==
    \E t \in Tickers : Start("/api/historical/daily", t, <<"/historical-price-full/" \o t>>)

get_stock_all_data_call ==
    \E t \in Tickers :
        Start("/api/stock", t,
              <<"/profile/" \o t, "/quote/" \o t, "/historical-chart/5min/" \o t>>)

\* client.get of call i answers with r and fetch_fmp_data runs to its end
UpstreamReply ==
    \E i \in 1..Len(calls), r \in Replies :
        /\ calls[i].state = "pending"
        /\ calls' = [calls EXCEPT ![i].state = "done", ![i].reply = r,
                                  ![i].result = fetch_fmp_data(r)]
        /\ order' = Append(order, i)
        /\ outer' = IF route = "/api/stock" THEN DoneCallback(outer, calls', i) ELSE outer
        /\ UNCHANGED <<API_KEY, phase, pc, route, ticker, client, response>>

\* the awaited fetch is over: the async with block is left and the handler ends
Finish(r, resp) ==
    /\ pc = "await"
    /\ route = r
    /\ client' = "closed"
    /\ response' = resp
    /\ pc' = "responded"
    /\ UNCHANGED <<API_KEY, phase, route, ticker, calls, order, outer>>

Raised(res) == Failure(res.status, res.detail)

get_quote_return ==
    /\ Len(calls) = 1 /\ calls[1].state = "done"
    /\ Finish("/api/quote",
              IF calls[1].result.tag = "raise" THEN Raised(calls[1].result)
              ELSE get_quote_body(calls[1].result.data))

get_historical_daily_return ==
    /\ Len(calls) = 1 /\ calls[1].state = "done"
    /\ Finish("/api/historical/daily",
              IF calls[1].result.tag = "raise" THEN Raised(calls[1].result)
              ELSE get_historical_daily_body(calls[1].result.data))

get_stock_all_data_return ==
    /\ outer.state # "pending"
    /\ Finish("/api/stock",
              IF outer.state = "exception" THEN Raised(outer.exc)
              ELSE get_stock_all_data_body(ticker, GatherResults(calls, order)))

\* the response is sent; nothing of the request is kept
NextRequest ==
    /\ pc = "responded"
    /\ pc' = "idle"
    /\ route' = "none"
    /\ ticker' = ""
    /\ client' = "none"
    /\ calls' = <<>>
    /\ order' = <<>>
    /\ outer' = Pending
    /\ response' = NoResponse
    /\ UNCHANGED <<API_KEY, phase>>

Next ==
    \/ Startup
    \/ read_root
    \/ get_quote_call
    \/ get_historical_daily_call
    \/ get_stock_all_data_call
    \/ UpstreamReply
    \/ get_quote_return
    \/ get_historical_daily_return
    \/ get_stock_all_data_return
    \/ NextRequest

Spec == Init /\ [][Next]_vars

\* ============================================================== properties
Responded(r) == pc = "responded" /\ route = r

\* the call completed with the status code of an upstream error
UpstreamError(c) == c.state = "done" /\ c.reply.net = "ok" /\ c.reply.status >= 400

\* the call completed with a failure that is no status code
OtherFailure(c) ==
    /\ c.state = "done"
    /\ \/ c.reply.net = "error"
       \/ c.reply.net = "ok" /\ c.reply.status < 300 /\ c.reply.json = "malformed"

\* the call completed with a 2xx status and a body that parsed
Fetched(c) ==
    c.state = "done" /\ c.reply.net = "ok" /\ c.reply.status < 300 /\ c.reply.json = "ok"

AllFetched == \A i \in 1..Len(calls) : Fetched(calls[i])

Failed(c) == UpstreamError(c) \/ OtherFailure(c)

\* call i completed and no call that completed before it had failed
FirstFailure(i) ==
    \E k \in 1..Len(order) :
        /\ order[k] = i
        /\ Failed(calls[i])
        /\ \A m \in 1..(k - 1) : ~Failed(calls[order[m]])

\* the body the upstream served for an endpoint of the current request
BodyFor(e) == calls[CHOOSE i \in 1..Len(calls) : calls[i].endpoint = e].reply.body

Empty(b) ==
    \/ b.kind = "null"
    \/ b.kind = "bool" /\ b.val = "false"
    \/ b.kind = "num" /\ b.val = "0"
    \/ b.kind = "str" /\ b.val = ""
    \/ b.kind = "list" /\ b.items = <<>>
    \/ b.kind = "obj" /\ b.keys = {}

NonEmptyList(b) == b.kind = "list" /\ b.items # <<>>

\* C1 (as stated): when the handler responds, the response carries the status
\* code of every upstream call that has returned a 4xx/5xx status.
C1_EveryUpstreamErrorMirrored ==
    [][(pc = "await" /\ pc' = "responded") =>
         \A i \in 1..Len(calls) :
             UpstreamError(calls[i]) => response'.status = calls[i].reply.status]_vars

\* C1 (amended): the response carries the status code and text of an upstream
\* 4xx/5xx when that call is the first of the request's calls to fail.
C1_FirstUpstreamErrorMirrored ==
    pc = "responded" =>
        \A i \in 1..Len(calls) :
            (UpstreamError(calls[i]) /\ FirstFailure(i)) =>
                /\ response.status = calls[i].reply.status
                /\ response.detail = "Error from external API: " \o calls[i].reply.text
                /\ response.kind = "error"

\* /api/stock answered 404 for its first call while a later call returned 503
C1_Witness ==
    /\ Responded("/api/stock")
    /\ order = <<2, 1>>
    /\ calls[2].reply.status = 404 /\ calls[1].reply.status = 503
    /\ response.status = 404

\* C2: after a 2xx quote fetch, get_quote answers element 0 of a non-empty
\* list and 404 for an empty or non-list body.
C2_QuoteNotFoundUnlessList ==
    (Responded("/api/quote") /\ Fetched(calls[1])) =>
        IF NonEmptyList(calls[1].reply.body)
        THEN /\ response.status = 200
             /\ response.kind = "object"
             /\ response.elem = calls[1].reply.body.items[1]
        ELSE /\ response.status = 404
             /\ response.detail = "Quote data for ticker not found."

\* get_quote answered 404 for a non-empty body that is not a list
C2_Witness ==
    /\ Responded("/api/quote")
    /\ Fetched(calls[1])
    /\ calls[1].reply.body.kind = "obj" /\ calls[1].reply.body.keys # {}
    /\ response.status = 404

\* C3: after a 2xx historical fetch, an empty body or an object without the
\* "historical" field gives a success with the empty sequence; an object with
\* the field gives that field's array.
C3_HistoricalEmptyNotError ==
    (Responded("/api/historical/daily") /\ Fetched(calls[1])) =>
        LET b == calls[1].reply.body IN
        /\ (Empty(b) \/ (b.kind = "obj" /\ "historical" \notin b.keys)) =>
               (response.status = 200 /\ response.kind = "array" /\ response.items = <<>>)
        /\ (b.kind = "obj" /\ "historical" \in b.keys) =>
               (response.status = 200 /\ response.kind = "array" /\ response.items = b.items)

\* get_historical_daily answered [] for an object without "historical"
C3_Witness ==
    /\ Responded("/api/historical/daily")
    /\ Fetched(calls[1])
    /\ calls[1].reply.body.kind = "obj"
    /\ calls[1].reply.body.keys = {"Error Message"}
    /\ response.status = 200 /\ response.items = <<>>

\* C4: when the three fetches of /api/stock all completed with 2xx, the
\* response is 404 exactly when the three bodies are all empty, and a success
\* otherwise.
C4_NotFoundIffAllEmpty ==
    (Responded("/api/stock") /\ AllFetched) =>
        LET allEmpty == \A i \in 1..3 : Empty(calls[i].reply.body) IN
        /\ response.status = 404 <=> allEmpty
        /\ ~allEmpty => (response.status = 200 /\ response.kind = "combined")

\* /api/stock answered 404 for three empty bodies
C4_Witness ==
    /\ Responded("/api/stock")
    /\ AllFetched
    /\ \A i \in 1..3 : Empty(calls[i].reply.body)
    /\ response.status = 404

\* C5: an empty profile body with non-empty quote and chart lists gives a
\* success with profile null, quote element 0 and the chart list.
C5_EmptyProfileStillSucceeds ==
    (Responded("/api/stock") /\ AllFetched) =>
        LET p == BodyFor("/profile/" \o ticker)
            q == BodyFor("/quote/" \o ticker)
            c == BodyFor("/historical-chart/5min/" \o ticker) IN
        (Empty(p) /\ NonEmptyList(q) /\ NonEmptyList(c)) =>
            /\ response.status = 200
            /\ response.profile = None
            /\ response.quote = q.items[1]
            /\ response.chart_intraday = c.items

\* /api/stock succeeded with an empty profile body and two-element lists
C5_Witness ==
    /\ Responded("/api/stock")
    /\ AllFetched
    /\ Empty(calls[1].reply.body)
    /\ calls[2].reply.body.kind = "list" /\ calls[2].reply.body.items = <<"r1", "r2">>
    /\ calls[3].reply.body.kind = "list" /\ Len(calls[3].reply.body.items) = 2
    /\ response.status = 200 /\ response.profile = None /\ response.quote = "r1"

\* C6: with the key unset or empty the start fails and no request is ever
\* handled; a request is handled only with a non-empty key.
C6_NoKeyNoService ==
    /\ (API_KEY \in {None, ""} /\ phase # "import") => phase = "crashed"
    /\ phase # "serving" => (pc = "idle" /\ response = NoResponse /\ calls = <<>>)
    /\ pc # "idle" => (API_KEY \notin {None, ""} /\ phase = "serving")

\* the start failed on an empty key
C6_Witness == API_KEY = "" /\ phase = "crashed"

\* C7: a network failure or a malformed body makes fetch_fmp_data raise 500
\* with the fixed message, and that is the response when the failure reaches
\* the handler.
C7_OtherFailureIsInternalError ==
    \A i \in 1..Len(calls) :
        OtherFailure(calls[i]) =>
            /\ calls[i].result.tag = "raise"
            /\ calls[i].result.status = 500
            /\ calls[i].result.detail = "An unexpected internal error occurred."
            /\ (pc = "responded" /\ FirstFailure(i)) =>
                   /\ response.status = 500
                   /\ response.kind = "error"
                   /\ response.detail = "An unexpected internal error occurred."

\* /api/stock answered 500 for a malformed body of its third call
C7_Witness ==
    /\ Responded("/api/stock")
    /\ calls[3].state = "done" /\ calls[3].reply.json = "malformed"
    /\ FirstFailure(3)
    /\ response.status = 500

\* C8 (as stated): /api/stock neither responds nor closes its client before
\* its three calls have completed.
C8_WaitsForAllThree ==
    (route = "/api/stock" /\ (client = "closed" \/ response # NoResponse)) =>
        \A i \in 1..3 : calls[i].state = "done"

\* C8 (amended): /api/stock responds or closes its client before its three
\* calls have completed only to report the failure of a call that completed.
C8_OnlyFailureShortCircuits ==
    (route = "/api/stock" /\ (client = "closed" \/ response # NoResponse)) =>
        \/ \A i \in 1..3 : calls[i].state = "done"
        \/ /\ outer.state = "exception"
           /\ Failed(calls[outer.from])
           /\ response.kind = "error"
           /\ response.status = calls[outer.from].result.status

\* /api/stock reported a failure with two calls still pending
C8_Witness ==
    /\ Responded("/api/stock")
    /\ client = "closed"
    /\ Len(order) = 1
    /\ response.kind = "error"

\* C9: each field of a combined result comes from the reply to its own
\* endpoint, whatever the order in which the calls completed.
C9_MergeIsPositional ==
    (Responded("/api/stock") /\ response.kind = "combined") =>
        LET p == BodyFor("/profile/" \o ticker)
            q == BodyFor("/quote/" \o ticker)
            c == BodyFor("/historical-chart/5min/" \o ticker) IN
        /\ response.profile = IF NonEmptyList(p) THEN p.items[1] ELSE None
        /\ response.quote = IF NonEmptyList(q) THEN q.items[1] ELSE None
        /\ response.chart_intraday = IF c.kind = "list" THEN c.items ELSE <<>>

\* a combined result whose calls completed in reverse order
C9_Witness ==
    /\ Responded("/api/stock")
    /\ order = <<3, 2, 1>>
    /\ response.kind = "combined"
    /\ response.profile = "r1" /\ response.quote = "r2"
    /\ response.chart_intraday = <<"r2", "r1">>

\* C10: a success of /api/stock carries a profile, a quote or a chart point.
C10_SuccessCarriesData ==
    (Responded("/api/stock") /\ response.status = 200) =>
        \/ response.profile # None
        \/ response.quote # None
        \/ response.chart_intraday # <<>>

====
